---------------------------- MODULE Spec2Model ----------------------------
(***************************************************************************)
(* Model of the Swedish personal finance lifetime simulator:               *)
(*   - SwedishTaxCalculator (calculateYearlyTax and its private helpers),  *)
(*   - FinancialSimulationEngine.runSimulation and the year loop.          *)
(*                                                                         *)
(* Numbers.  The program computes with IEEE doubles.  The model computes   *)
(* with integers: amounts are whole kronor, rates are integer numerators   *)
(* over a fixed denominator, and a product amount * rate is the exact      *)
(* product rounded down to a whole krona (MulFrac).  An integer of the     *)
(* model is finite and far below MAX_REASONABLE_VALUE = 10^12 kr, which is *)
(* beyond the integers the model checker represents.  The monthly living   *)
(* expense, the yearly expenses and the cash flow are numbers that may be  *)
(* NaN, infinite or of the order of 10^12: they are modelled as number     *)
(* records (kind, hi, lo), a finite one standing for hi * 10^12 + lo.      *)
(***************************************************************************)
EXTENDS Integers, Sequences, FiniteSets, TLC

(***************************************************************************)
(* Arithmetic helpers                                                      *)
(***************************************************************************)
Max(a, b) == IF a >= b THEN a ELSE b

Min(a, b) == IF a <= b THEN a ELSE b

\* floor(x * n / d) for d > 0, computed without forming x * n
MulFrac(x, n, d) == (x \div d) * n + ((x % d) * n) \div d

(***************************************************************************)
(* Numbers beyond the integers of the model checker                        *)
(***************************************************************************)
\* the finite number hi * 10^12 + lo
Finite(hi, lo) == [kind |-> "finite", hi |-> hi, lo |-> lo]

\* a finite number of whole kronor below 10^12
Kr(n) == Finite(0, n)

NaN == [kind |-> "NaN", hi |-> 0, lo |-> 0]

Infinity == [kind |-> "Infinity", hi |-> 0, lo |-> 0]

MinusInfinity == [kind |-> "-Infinity", hi |-> 0, lo |-> 0]

isFinite(x) == x.kind = "finite"

\* x * k for an integer k > 0
TimesInteger(x, k) == IF isFinite(x) THEN Finite(x.hi * k, x.lo * k) ELSE x

\* x - y for finite x and y
Minus(x, y) == Finite(x.hi - y.hi, x.lo - y.lo)

\* x < 0
IsNegative(x) ==
    \/ x.kind = "-Infinity"
    \/ isFinite(x) /\ (x.hi < 0 \/ (x.hi = 0 /\ x.lo < 0))

\* x < y
LessThan(x, y) ==
    IF x.kind = "NaN" \/ y.kind = "NaN" THEN FALSE
    ELSE IF isFinite(x) /\ isFinite(y) THEN IsNegative(Minus(x, y))
    ELSE \/ x.kind = "-Infinity" /\ y.kind # "-Infinity"
         \/ y.kind = "Infinity" /\ x.kind # "Infinity"

\* x >= y
AtLeast(x, y) ==
    IF x.kind = "NaN" \/ y.kind = "NaN" THEN FALSE ELSE ~LessThan(x, y)

\* Math.abs(x) > 10^12 for a finite x
ExceedsMaxReasonable(x) ==
    \/ x.hi >= 2
    \/ x.hi = 1 /\ x.lo > 0
    \/ x.hi = -1 /\ x.lo < 0
    \/ x.hi <= -2

(***************************************************************************)
(* SWEDISH_TAX_PARAMETERS_2025, BASIC_DEDUCTION_2025                       *)
(* Rates are numerators: per cent unless said otherwise.                   *)
(***************************************************************************)
inkomstBasbelopp == 80600

stateTaxBreakpoint_under66 == 643100

stateTaxBreakpoint_over66 == 733200

\* 0.20, in per cent
stateTaxRate == 20

\* 0.3241, in 1/10000
averageMunicipalTax == 3241

\* 0.07, in per cent
generalPensionFee == 7

\* 0.0196, in 1/10000
governmentBondRate == 196

\* 0.01, in 1/10000
supplement == 100

\* 0.0125, in 1/10000
minRate == 125

\* 0.30, in tenths
iskTaxRate == 3

taxFreeAmount2025 == 150000

\* 0.30, in per cent
capitalGainsSecurities == 30

basicDeduction_under66 == [minimum |-> 24900, maximum |-> 45300, minimumAtHighIncome |-> 17300]

basicDeduction_over66 == [minimum |-> 65300, maximum |-> 163100, minimumAtHighIncome |-> 107400]

\* the age from which the senior deduction and breakpoint apply
SeniorAge == 66

(***************************************************************************)
(* SwedishTaxCalculator                                                    *)
(***************************************************************************)
\* a variant that takes the smaller of the two rates
calculateISKTaxRate_SmallerRate ==
    Min(governmentBondRate + supplement, minRate) * iskTaxRate

\* effective ISK/KF rate, in 1/100000 (schablonRate in 1/10000 times tenths)
calculateISKTaxRate == Max(governmentBondRate + supplement, minRate) * iskTaxRate

ISK_EFFECTIVE_TAX_RATE_2025 == calculateISKTaxRate

calculateBasicDeduction(taxableIncome, age) ==
    LET deduction == IF age >= SeniorAge THEN basicDeduction_over66 ELSE basicDeduction_under66
    IN  IF taxableIncome <= 100000 THEN deduction.minimum
        ELSE IF taxableIncome <= 500000 THEN deduction.maximum
        ELSE deduction.minimumAtHighIncome

\* inkomstBasbelopp * 8.07 * 0.93
maxPGI == MulFrac(MulFrac(inkomstBasbelopp, 807, 100), 93, 100)

\* a variant without the floor at 0
taxableIncomeOf_NoFloor(grossSalary, pensionFee, basicDeduction) ==
    grossSalary - pensionFee - basicDeduction

\* Math.max(0, grossSalary - pensionFee - basicDeduction)
taxableIncomeOf(grossSalary, pensionFee, basicDeduction) ==
    Max(0, grossSalary - pensionFee - basicDeduction)

\* a variant that applies the breakpoint to taxpayers below the senior age only
stateThresholdOf_YoungerOnly(age) ==
    IF age >= SeniorAge THEN 0 ELSE stateTaxBreakpoint_under66

\* age >= 66 ? stateTaxBreakpoint.over66 : stateTaxBreakpoint.under66
stateThresholdOf(age) ==
    IF age >= SeniorAge THEN stateTaxBreakpoint_over66 ELSE stateTaxBreakpoint_under66

calculateIncomeTax(grossSalary, age) ==
    LET pensionableIncome == Min(grossSalary, maxPGI)
        pensionFee == MulFrac(pensionableIncome, generalPensionFee, 100)
        basicDeduction == calculateBasicDeduction(grossSalary - pensionFee, age)
        taxableIncome == taxableIncomeOf(grossSalary, pensionFee, basicDeduction)
        municipalTax == MulFrac(taxableIncome, averageMunicipalTax, 10000)
        stateThreshold == stateThresholdOf(age)
        stateTaxableIncome == Max(0, taxableIncome - stateThreshold)
        stateTax == MulFrac(stateTaxableIncome, stateTaxRate, 100)
    IN  [municipalTax |-> municipalTax, stateTax |-> stateTax, pensionFee |-> pensionFee,
         basicDeduction |-> basicDeduction, taxableIncome |-> taxableIncome]

calculateISKTax(iskCapital) ==
    LET taxableCapital == Max(0, iskCapital - taxFreeAmount2025)
    IN  MulFrac(taxableCapital, ISK_EFFECTIVE_TAX_RATE_2025, 100000)

calculateKFTax(kfCapital) == calculateISKTax(kfCapital)

\* a variant that taxes a loss negatively
calculateCapitalGainsTax_NoFloor(capitalGains) ==
    MulFrac(capitalGains, capitalGainsSecurities, 100)

calculateCapitalGainsTax(capitalGains) ==
    MulFrac(Max(0, capitalGains), capitalGainsSecurities, 100)

\* a variant that leaves the KF tax out of the total
totalTaxOf_WithoutKF(municipalTax, stateTax, iskTax, kfTax, capitalGainsTax) ==
    municipalTax + stateTax + iskTax + capitalGainsTax

totalTaxOf(municipalTax, stateTax, iskTax, kfTax, capitalGainsTax) ==
    municipalTax + stateTax + iskTax + kfTax + capitalGainsTax

\* inputs: [grossSalary, age, iskCapital, kfCapital, hasCapitalGains, capitalGains];
\* hasCapitalGains = FALSE is the optional field left out
calculateYearlyTax(inputs) ==
    LET incomeTaxResult == calculateIncomeTax(inputs.grossSalary, inputs.age)
        iskTax == calculateISKTax(inputs.iskCapital)
        kfTax == calculateKFTax(inputs.kfCapital)
        capitalGainsTax == IF inputs.hasCapitalGains /\ inputs.capitalGains # 0
                           THEN calculateCapitalGainsTax(inputs.capitalGains) ELSE 0
        totalTax == totalTaxOf(incomeTaxResult.municipalTax, incomeTaxResult.stateTax,
                               iskTax, kfTax, capitalGainsTax)
        netIncome == inputs.grossSalary - totalTax
    IN  [municipalTax |-> incomeTaxResult.municipalTax,
         stateTax |-> incomeTaxResult.stateTax,
         iskTax |-> iskTax,
         kfTax |-> kfTax,
         capitalGainsTax |-> capitalGainsTax,
         totalTax |-> totalTax,
         netIncome |-> netIncome]

(***************************************************************************)
(* MACROECONOMIC_ASSUMPTIONS.  Return rates in 1/1000, life expectancy in  *)
(* tenths of a year.                                                       *)
(***************************************************************************)
\* realReturnOnInvestments.bonds, 0.005
bonds == 5

\* realReturnOnInvestments.mixedPortfolio, 0.035
mixedPortfolio == 35

\* lifeExpectancy.male, 82.3
lifeExpectancy_male == 823

\* lifeExpectancy.female, 85.4
lifeExpectancy_female == 854

lifeExpectancy(genderKey) ==
    IF genderKey = "male" THEN lifeExpectancy_male ELSE lifeExpectancy_female

(***************************************************************************)
(* FinancialSimulationEngine: helpers                                      *)
(***************************************************************************)
\* the value of an optional field that is absent
undefined == [undefined |-> TRUE]

\* an optional number or array that is present
Some(v) == [value |-> v]

\* safeNumber on an integer of the model: a finite number of magnitude
\* below 10^12, which safeNumber returns as it is
safeNumber(value) == value

\* safeNumber on a number record: NaN and the infinities give 0, a magnitude
\* above 10^12 gives 10^12 with the sign of the value
safeNumberOf(value) ==
    IF ~isFinite(value) THEN Kr(0)
    ELSE IF ExceedsMaxReasonable(value)
         THEN (IF IsNegative(value) THEN Finite(-1, 0) ELSE Finite(1, 0))
    ELSE value

\* rates: undefined, or [liquidSavingsRate, iskAccountRate] in 1/1000
sanitizeInvestmentRates(rates) ==
    IF rates = undefined
    THEN [liquidSavingsRate |-> bonds, iskAccountRate |-> mixedPortfolio]
    ELSE [liquidSavingsRate |-> Max(-100, Min(200, rates.liquidSavingsRate)),
          iskAccountRate |-> Max(-500, Min(500, rates.iskAccountRate))]

\* max(1, lifeExpectancy[age >= 65 ? female : male] - age), in tenths of a year
remainingYears(age) ==
    LET genderKey == IF age >= 65 THEN "female" ELSE "male"
    IN  Max(10, lifeExpectancy(genderKey) - age * 10)

calculateAccountPension(account, currentAge) ==
    IF currentAge < account.withdrawalSettings.startAge THEN 0
    ELSE IF account.withdrawalSettings.monthlyAmount > 0
         THEN safeNumber(account.withdrawalSettings.monthlyAmount)
    ELSE IF account.expectedMonthlyPension > 0
         THEN safeNumber(account.expectedMonthlyPension)
    ELSE LET currentValue == safeNumber(account.currentValue)
         IN  IF account.withdrawalSettings.isLifelong
             THEN MulFrac(currentValue, 10, remainingYears(currentAge) * 12)
             ELSE MulFrac(currentValue, 4, 100) \div 12

\* a variant that pays from the first simulated year on
accountIncome_FromCurrentAge(account, age) ==
    safeNumber(calculateAccountPension(
        [account EXCEPT !.withdrawalSettings.startAge = age], age))

\* what one pass of the forEach of calculatePensionIncome adds for an account
accountIncome(account, age) ==
    IF age >= account.withdrawalSettings.startAge
    THEN safeNumber(calculateAccountPension(account, age))
    ELSE 0

RECURSIVE SumPension(_, _, _)
\* the forEach accumulation of calculatePensionIncome for accounts of one type
SumPension(accounts, age, type) ==
    IF accounts = <<>> THEN 0
    ELSE LET account == Head(accounts)
             monthlyAmount == IF account.type = type
                              THEN accountIncome(account, age) ELSE 0
         IN  monthlyAmount + SumPension(Tail(accounts), age, type)

calculatePensionIncome(age, generalPensionCapital, pensionAccounts, pensionSettings) ==
    LET general == pensionSettings.generalPension
        generalPension ==
            IF age >= general.withdrawalStartAge
            THEN IF general.estimatedMonthlyAmount > 0
                 THEN safeNumber(general.estimatedMonthlyAmount)
                 ELSE safeNumber(MulFrac(generalPensionCapital, 10, remainingYears(age) * 12))
            ELSE 0
        occupationalPension == SumPension(pensionAccounts, age, "tjanste")
        privatePension == SumPension(pensionAccounts, age, "privat")
    IN  [generalPension |-> generalPension,
         occupationalPension |-> occupationalPension,
         privatePension |-> privatePension,
         total |-> generalPension + occupationalPension + privatePension]

\* the value updatePensionCapital and updatePensionAccounts give an account
nextAccountValue(account, age) ==
    IF age >= account.withdrawalSettings.startAge
    THEN Max(0, safeNumber(account.currentValue)
                - safeNumber(calculateAccountPension(account, age) * 12))
    ELSE safeNumber(MulFrac(account.currentValue, 1000 + mixedPortfolio, 1000))

\* the accounts after the forEach of updatePensionCapital has assigned
\* account.currentValue of each of them
mutateAccounts(pensionAccounts, age) ==
    [i \in 1..Len(pensionAccounts) |->
        [pensionAccounts[i] EXCEPT !.currentValue = nextAccountValue(pensionAccounts[i], age)]]

RECURSIVE SumCapital(_, _)
SumCapital(accounts, type) ==
    IF accounts = <<>> THEN 0
    ELSE (IF Head(accounts).type = type THEN safeNumber(Head(accounts).currentValue) ELSE 0)
         + SumCapital(Tail(accounts), type)

\* the record updatePensionCapital returns; the accounts it leaves behind are
\* mutateAccounts(pensionAccounts, age)
updatePensionCapital(age, generalPensionCapital, pensionAccounts, pensionSettings, pensionIncome) ==
    LET start == safeNumber(generalPensionCapital)
        updatedGeneralCapital ==
            IF age >= pensionSettings.generalPension.withdrawalStartAge
            THEN Max(0, start - safeNumber(pensionIncome.generalPension * 12))
            ELSE safeNumber(MulFrac(start, 1000 + bonds, 1000))
        after == mutateAccounts(pensionAccounts, age)
        occupationalCapital == SumCapital(after, "tjanste")
        privateCapital == SumCapital(after, "privat")
    IN  [general |-> updatedGeneralCapital,
         occupational |-> occupationalCapital,
         private |-> privateCapital,
         total |-> updatedGeneralCapital + occupationalCapital + privateCapital]

\* a new array of new account objects
updatePensionAccounts(accounts, age) ==
    [i \in 1..Len(accounts) |->
        [accounts[i] EXCEPT !.currentValue = nextAccountValue(accounts[i], age)]]

\* the cash flow is a number record; a cash flow that is not negative is
\* below 10^12 for the inputs of the model
calculateNextLiquidAssets(yearProjection, currentLiquidAssets, investmentRates, config) ==
    LET totalCashFlow == yearProjection.calculations.cashFlow
        deficit == Minus(Kr(0), totalCashFlow)
        liquidDeficit == IF LessThan(Kr(currentLiquidAssets), deficit)
                         THEN currentLiquidAssets ELSE deficit.lo
        afterFlow == IF IsNegative(totalCashFlow)
                     THEN currentLiquidAssets - liquidDeficit
                     ELSE currentLiquidAssets + totalCashFlow.lo
        growthRate == IF config.useCustomInvestmentRates
                      THEN investmentRates.liquidSavingsRate ELSE bonds
        grown == IF afterFlow > 0
                 THEN safeNumber(MulFrac(afterFlow, 1000 + growthRate, 1000))
                 ELSE afterFlow
    IN  Max(0, grown)

calculateNextISKValue(currentISKValue, investmentRates, config) ==
    IF currentISKValue <= 0 THEN 0
    ELSE LET growthRate == IF config.useCustomInvestmentRates
                           THEN investmentRates.iskAccountRate ELSE mixedPortfolio
         IN  safeNumber(MulFrac(currentISKValue, 1000 + growthRate, 1000))

(***************************************************************************)
(* FinancialSimulationEngine.validateInputs                                *)
(* A message is the rule that pushed it and, for the per-account rules of  *)
(* validatePensions, the position of the account (0 otherwise).  Rates are *)
(* in 1/1000.  An inputs record may hold the optional fields investments   *)
(* and pensions; a missing field has the value undefined.                  *)
(***************************************************************************)
Msg(rule, account) == [rule |-> rule, account |-> account]

\* array.push(message) under a condition
PushIf(condition, message) == IF condition THEN << message >> ELSE << >>

validateProfile(profile) ==
    [errors |->
        PushIf(profile.currentAge < 16 \/ profile.currentAge > 80, Msg("ageRange", 0))
        \o PushIf(profile.desiredRetirementAge <= profile.currentAge,
                  Msg("retirementNotAfterAge", 0)),
     warnings |->
        PushIf(profile.desiredRetirementAge < 61, Msg("retirementBefore61", 0))]

validateIncome(income) ==
    PushIf(income.monthlySalary < 10000, Msg("lowSalary", 0))
    \o PushIf(income.monthlySalary > 100000, Msg("highSalary", 0))
    \o PushIf(income.realSalaryGrowth < -50 \/ income.realSalaryGrowth > 100,
              Msg("unusualGrowth", 0))

validateExpenses(expenses, income) ==
    PushIf(AtLeast(expenses.monthlyLiving, Kr(income.monthlySalary)), Msg("noSaving", 0))
    \o PushIf(LessThan(expenses.monthlyLiving, Kr(15000)), Msg("lowExpenses", 0))

\* a variant that only warns about the investment-account rate
validateInvestmentRates_WarnOnly(rates) ==
    [errors |-> << >>,
     warnings |->
        PushIf(rates.liquidSavingsRate < -100 \/ rates.liquidSavingsRate > 200,
               Msg("liquidRateUnrealistic", 0))
        \o PushIf(rates.iskAccountRate < -500 \/ rates.iskAccountRate > 500,
                  Msg("iskRateOutOfRange", 0))
        \o PushIf(rates.iskAccountRate > 150, Msg("iskRateHigh", 0))]

validateInvestmentRates(rates) ==
    [errors |->
        PushIf(rates.iskAccountRate < -500 \/ rates.iskAccountRate > 500,
               Msg("iskRateOutOfRange", 0)),
     warnings |->
        PushIf(rates.liquidSavingsRate < -100 \/ rates.liquidSavingsRate > 200,
               Msg("liquidRateUnrealistic", 0))
        \o PushIf(rates.iskAccountRate > 150, Msg("iskRateHigh", 0))]

RECURSIVE validateAccounts(_, _)
\* the forEach of validatePensions over the accounts from position k on
validateAccounts(accounts, k) ==
    IF k > Len(accounts) THEN [errors |-> << >>, warnings |-> << >>]
    ELSE LET account == accounts[k]
             rest == validateAccounts(accounts, k + 1)
         IN  [errors |->
                 PushIf(account.withdrawalSettings.startAge < account.earliestWithdrawalAge,
                        Msg("accountTooEarly", k))
                 \o rest.errors,
              warnings |->
                 PushIf(account.withdrawalSettings.startAge > account.latestWithdrawalAge,
                        Msg("accountLate", k))
                 \o PushIf(account.currentValue = 0 /\ account.expectedMonthlyPension = 0,
                           Msg("accountNoValue", k))
                 \o rest.warnings]

\* a variant that only warns about an early general pension
validatePensions_WarnOnly(pensions) ==
    LET perAccount == validateAccounts(pensions.accounts, 1)
    IN  [errors |-> perAccount.errors,
         warnings |->
            PushIf(pensions.generalPension.withdrawalStartAge < 62,
                   Msg("generalTooEarly", 0))
            \o PushIf(pensions.generalPension.withdrawalStartAge > 70, Msg("generalLate", 0))
            \o perAccount.warnings]

validatePensions(pensions) ==
    LET perAccount == validateAccounts(pensions.accounts, 1)
    IN  [errors |->
            PushIf(pensions.generalPension.withdrawalStartAge < 62,
                   Msg("generalTooEarly", 0))
            \o perAccount.errors,
         warnings |->
            PushIf(pensions.generalPension.withdrawalStartAge > 70, Msg("generalLate", 0))
            \o perAccount.warnings]

\* a variant that reports every input as valid
isValidOf_Always(errors) == TRUE

\* isValid: errors.length === 0
isValidOf(errors) == Len(errors) = 0

validateInputs(inputs, config) ==
    LET none == [errors |-> << >>, warnings |-> << >>]
        profile == validateProfile(inputs.profile)
        income == validateIncome(inputs.income)
        expenses == validateExpenses(inputs.expenses, inputs.income)
        rates == IF config.useCustomInvestmentRates /\ inputs.investments # undefined
                 THEN validateInvestmentRates(inputs.investments) ELSE none
        pensions == IF config.includePensions /\ inputs.pensions # undefined
                    THEN validatePensions(inputs.pensions) ELSE none
        errors == profile.errors \o rates.errors \o pensions.errors
        warnings == profile.warnings \o income \o expenses \o rates.warnings
                    \o pensions.warnings
    IN  [isValid |-> isValidOf(errors), warnings |-> warnings, errors |-> errors]

(***************************************************************************)
(* FinancialSimulationEngine.simulateYear                                  *)
(* params: [year, age, isRetired, currentSalary, liquidAssets, iskAccount, *)
(*          monthlyExpenses, generalPensionCapital, pensionAccounts,       *)
(*          pensionSettings]; generalPensionCapital and pensionAccounts    *)
(* are Some(v) or undefined, pensionSettings a record or undefined.        *)
(* monthlyExpenses, and expenses, savings and cashFlow of the record, are  *)
(* number records.                                                         *)
(***************************************************************************)
\* a variant without the floor at 0
reportedNetWorth_NoFloor(liquid, isk, totalPensionCapital) ==
    safeNumber(liquid) + safeNumber(isk) + totalPensionCapital

\* Math.max(0, liquid + ISK + total pension capital), the reported net worth
reportedNetWorth(liquid, isk, totalPensionCapital) ==
    Max(0, safeNumber(liquid) + safeNumber(isk) + totalPensionCapital)

pensionsModelled(params, config) ==
    /\ config.includePensions
    /\ params.generalPensionCapital # undefined
    /\ params.pensionAccounts # undefined
    /\ params.pensionSettings # undefined

\* a variant that never adds the pension data
carriesPensions_Never(config, pensionIncome, pensionCapital) == FALSE

\* the condition under which the record gets pensionIncome and pensionCapital
carriesPensions(config, pensionIncome, pensionCapital) ==
    /\ config.includePensions
    /\ pensionIncome # undefined
    /\ pensionCapital # undefined

\* a variant that leaves the pension out of the gross income
totalGrossIncomeOf_SalaryOnly(salaryIncome, pensionYearlyIncome) == salaryIncome

\* totalGrossIncome = salaryIncome + pensionYearlyIncome
totalGrossIncomeOf(salaryIncome, pensionYearlyIncome) ==
    salaryIncome + pensionYearlyIncome

simulateYear(params, config) ==
    LET pensionIncome ==
            IF pensionsModelled(params, config)
            THEN calculatePensionIncome(params.age, params.generalPensionCapital.value,
                                        params.pensionAccounts.value,
                                        params.pensionSettings)
            ELSE undefined
        salaryIncome == safeNumber(params.currentSalary)
        pensionYearlyIncome == IF pensionIncome # undefined
                               THEN safeNumber(pensionIncome.total * 12) ELSE 0
        totalGrossIncome == totalGrossIncomeOf(salaryIncome, pensionYearlyIncome)
        taxResult == calculateYearlyTax([grossSalary |-> totalGrossIncome,
                                         age |-> params.age,
                                         iskCapital |-> safeNumber(params.iskAccount),
                                         kfCapital |-> 0,
                                         hasCapitalGains |-> FALSE,
                                         capitalGains |-> 0])
        yearlyExpenses == safeNumberOf(TimesInteger(params.monthlyExpenses, 12))
        netIncome == safeNumber(taxResult.netIncome)
        cashFlow == Minus(Kr(netIncome), yearlyExpenses)
        pensionCapital ==
            IF pensionsModelled(params, config)
            THEN LET updated == updatePensionCapital(params.age,
                                                     params.generalPensionCapital.value,
                                                     params.pensionAccounts.value,
                                                     params.pensionSettings, pensionIncome)
                 IN  [general |-> safeNumber(updated.general),
                      occupational |-> safeNumber(updated.occupational),
                      private |-> safeNumber(updated.private),
                      total |-> safeNumber(updated.total)]
            ELSE undefined
        totalPensionCapital == IF pensionCapital # undefined THEN pensionCapital.total ELSE 0
        netWorth == reportedNetWorth(params.liquidAssets, params.iskAccount,
                                     totalPensionCapital)
    IN  [year |-> params.year,
         age |-> params.age,
         salary |-> salaryIncome,
         expenses |-> yearlyExpenses,
         savings |-> cashFlow,
         netWorth |-> safeNumber(netWorth),
         calculations |-> [grossIncome |-> totalGrossIncome,
                           pensionFee |-> safeNumber(MulFrac(salaryIncome, 7, 100)),
                           municipalTax |-> safeNumber(taxResult.municipalTax),
                           stateTax |-> safeNumber(taxResult.stateTax),
                           iskTax |-> safeNumber(taxResult.iskTax),
                           totalTax |-> safeNumber(taxResult.totalTax),
                           netIncome |-> netIncome,
                           cashFlow |-> cashFlow],
         pensionIncome |-> IF carriesPensions(config, pensionIncome, pensionCapital)
                           THEN pensionIncome ELSE undefined,
         pensionCapital |-> IF carriesPensions(config, pensionIncome, pensionCapital)
                            THEN pensionCapital ELSE undefined]

(***************************************************************************)
(* FinancialSimulationEngine.analyzeCapitalDuration                        *)
(***************************************************************************)
\* projections.findIndex((p) => p.age === retirementAge), counted from 1;
\* 0 stands for -1
findRetirementYear(projections, retirementAge) ==
    LET found == { i \in 1..Len(projections) : projections[i].age = retirementAge }
    IN  IF found = {} THEN 0
        ELSE CHOOSE i \in found : \A j \in found : i <= j

\* a variant that scans from the first record
scanStart_FromFirst(retirementYear) == 1

\* the first index of the for loop: let i = retirementYear
scanStart(retirementYear) == retirementYear

analyzeCapitalDuration(projections, retirementAge) ==
    LET retirementYear == findRetirementYear(projections, retirementAge)
        depleted == { i \in scanStart(retirementYear)..Len(projections) :
                        projections[i].netWorth <= 0 }
    IN  IF retirementYear = 0 THEN 0
        ELSE IF depleted # {}
             THEN projections[CHOOSE i \in depleted : \A j \in depleted : i <= j].age
                  - retirementAge
        ELSE projections[Len(projections)].age - retirementAge

(***************************************************************************)
(* FinancialSimulationEngine.generateSummary                               *)
(* Averages are in whole kronor, pensionCompensationRatio in 1/1000.       *)
(***************************************************************************)
null == [null |-> TRUE]

RECURSIVE SumOver(_, _)
\* array.reduce((sum, x) => sum + f(x), 0), for the array of the values f(x)
SumOver(values, n) ==
    IF n = 0 THEN 0 ELSE SumOver(values, n - 1) + values[n]

estimatePension(inputs, config) ==
    IF config.includePensions /\ inputs.pensions # undefined
    THEN LET accounts == inputs.pensions.accounts
             estimatedMonthlyPension ==
                 inputs.pensions.generalPension.estimatedMonthlyAmount
                 + SumOver([i \in 1..Len(accounts) |-> accounts[i].expectedMonthlyPension],
                           Len(accounts))
         IN  [monthlyPension |-> estimatedMonthlyPension,
              compensationRatio |->
                  IF inputs.income.monthlySalary > 0
                  THEN MulFrac(estimatedMonthlyPension, 1000, inputs.income.monthlySalary)
                  ELSE 0]
    ELSE [monthlyPension |-> MulFrac(inputs.income.monthlySalary, 6, 10),
          compensationRatio |-> 600]

getEmptySummary ==
    [maxNetWorth |-> 0, retirementNetWorth |-> 0, finalNetWorth |-> 0,
     totalSavings |-> 0, averageYearlySavings |-> 0, yearsOfPositiveCashFlow |-> 0,
     breakEvenAge |-> null, expectedMonthlyPension |-> 0,
     pensionCompensationRatio |-> 0, capitalDurationYears |-> 0,
     totalPensionCapital |-> 0, averageMonthlyPension |-> 0, pensionDuration |-> 0]

\* the first element of an array that satisfies a condition, given the
\* positions that satisfy it; 0 when there is none
FirstOf(positions) ==
    IF positions = {} THEN 0
    ELSE CHOOSE i \in positions : \A j \in positions : i <= j

\* inputs.pensions.accounts.reduce((sum, acc) => sum + acc.currentValue, 0)
summaryAccountCapital(projections, inputs) ==
    LET accounts == inputs.pensions.accounts
    IN  SumOver([i \in 1..Len(accounts) |-> accounts[i].currentValue], Len(accounts))

\* the savings of the records of the model are below 10^12
generateSummary(projections, inputs, config) ==
    IF Len(projections) = 0 THEN getEmptySummary
    ELSE
    LET pension == estimatePension(inputs, config)
        capitalDuration == analyzeCapitalDuration(projections,
                                                  inputs.profile.desiredRetirementAge)
        all == 1..Len(projections)
        finalProjection == projections[Len(projections)]
        maxNetWorth == CHOOSE w \in { projections[i].netWorth : i \in all } :
                          \A i \in all : projections[i].netWorth <= w
        retirementYear == FirstOf({ i \in all :
                             projections[i].age = inputs.profile.desiredRetirementAge })
        retirementNetWorth == IF retirementYear = 0 THEN 0
                              ELSE projections[retirementYear].netWorth
        positive == [i \in all |-> IF LessThan(Kr(0), projections[i].savings)
                                   THEN projections[i].savings.lo ELSE 0]
        yearsOfPositiveCashFlow == Cardinality({ i \in all : positive[i] > 0 })
        totalSavings == SumOver(positive, Len(projections))
        breakEven == FirstOf({ i \in all : projections[i].netWorth > 0 })
        baseSummary ==
            [maxNetWorth |-> maxNetWorth,
             retirementNetWorth |-> retirementNetWorth,
             finalNetWorth |-> finalProjection.netWorth,
             totalSavings |-> totalSavings,
             averageYearlySavings |-> IF yearsOfPositiveCashFlow > 0
                                      THEN totalSavings \div yearsOfPositiveCashFlow
                                      ELSE 0,
             yearsOfPositiveCashFlow |-> yearsOfPositiveCashFlow,
             breakEvenAge |-> IF breakEven = 0 THEN null
                              ELSE Some(projections[breakEven].age),
             expectedMonthlyPension |-> pension.monthlyPension,
             pensionCompensationRatio |-> pension.compensationRatio,
             capitalDurationYears |-> capitalDuration]
    IN  IF config.includePensions /\ inputs.pensions # undefined
        THEN LET general == inputs.pensions.generalPension
                 totalPensionCapital ==
                     general.currentInkomstpension + general.currentPremiepension
                     + summaryAccountCapital(projections, inputs)
                 pensionProjections == { i \in all :
                                           projections[i].age >= general.withdrawalStartAge }
                 incomes == [i \in all |->
                               IF i \in pensionProjections
                                  /\ projections[i].pensionIncome # undefined
                               THEN projections[i].pensionIncome.total ELSE 0]
             IN  [totalPensionCapital |-> totalPensionCapital,
                  averageMonthlyPension |->
                      IF pensionProjections # {}
                      THEN SumOver(incomes, Len(projections))
                           \div Cardinality(pensionProjections)
                      ELSE 0,
                  pensionDuration |-> Cardinality({ i \in all : incomes[i] > 0 })]
                 @@ baseSummary
        ELSE [totalPensionCapital |-> 0,
              averageMonthlyPension |-> pension.monthlyPension,
              pensionDuration |-> 0] @@ baseSummary

(***************************************************************************)
(* The inputs of the model                                                 *)
(***************************************************************************)
\* the largest number of pension accounts in inputs.pensions.accounts
MaxAccounts == 2

\* the number of successive runSimulation calls on the caller's inputs
NumCalls == 2

\* currentAge in [16, 80] and desiredRetirementAge > currentAge, as the data
\* model requires and validateProfile enforces
Profiles ==
    { [currentAge |-> a, gender |-> g, desiredRetirementAge |-> a + d] :
        a \in {80}, g \in {"man", "kvinna"}, d \in {1, 3} }

\* monthlySalary in kr, realSalaryGrowth in 1/1000
Incomes ==
    { [monthlySalary |-> 0, realSalaryGrowth |-> 16],
      [monthlySalary |-> 45000, realSalaryGrowth |-> 16],
      [monthlySalary |-> 45000, realSalaryGrowth |-> -500],
      [monthlySalary |-> 45000, realSalaryGrowth |-> -1000] }

Expenses == { [monthlyLiving |-> Kr(25000)] }

AssetChoices ==
    { [liquidSavings |-> -50000, iskAccount |-> 0],
      [liquidSavings |-> 100000, iskAccount |-> 200000] }

\* the pension accounts a person of the given age may hold
AccountChoices(age) ==
    { [type |-> "tjanste", currentValue |-> 100000, expectedMonthlyPension |-> 0,
       earliestWithdrawalAge |-> 55, latestWithdrawalAge |-> 70,
       withdrawalSettings |-> [startAge |-> age + 1, monthlyAmount |-> 0, isLifelong |-> TRUE]],
      [type |-> "privat", currentValue |-> 50000, expectedMonthlyPension |-> 0,
       earliestWithdrawalAge |-> 55, latestWithdrawalAge |-> 100,
       withdrawalSettings |-> [startAge |-> age, monthlyAmount |-> 0, isLifelong |-> FALSE]],
      [type |-> "tjanste", currentValue |-> 0, expectedMonthlyPension |-> 3000,
       earliestWithdrawalAge |-> 55, latestWithdrawalAge |-> 70,
       withdrawalSettings |-> [startAge |-> age + 1, monthlyAmount |-> 0, isLifelong |-> TRUE]] }

RECURSIVE SeqsUpTo(_, _)
\* the sequences of at most n elements of S
SeqsUpTo(S, n) ==
    IF n = 0 THEN { <<>> }
    ELSE LET shorter == SeqsUpTo(S, n - 1)
         IN  shorter \cup { Append(q, x) : q \in shorter, x \in S }

PensionChoices(age) ==
    { [accounts |-> accs,
       generalPension |-> [currentInkomstpension |-> 500000, currentPremiepension |-> 100000,
                           estimatedMonthlyAmount |-> est, withdrawalStartAge |-> age + 1]] :
        accs \in SeqsUpTo(AccountChoices(age), MaxAccounts), est \in {0, 15000} }

\* investmentRates, the optional third argument of runSimulation, in 1/1000
RateChoices == { undefined, [liquidSavingsRate |-> 300, iskAccountRate |-> 600] }

ConfigChoices ==
    { [includePensions |-> ip, useCustomInvestmentRates |-> cr, enableTransparency |-> et] :
        ip \in BOOLEAN, cr \in BOOLEAN, et \in BOOLEAN }

(***************************************************************************)
(* State                                                                   *)
(***************************************************************************)
VARIABLES
    inputs,                 \* the inputs object the caller passes to runSimulation
    config,                 \* the config argument
    investmentRates,        \* the investmentRates argument
    original,               \* the value of the inputs object when it was built
    inputsAtCall,           \* the value of the passed object when the running call began
    pc,                     \* "idle", "loop" (inside the year loop), "returned"
    calls,                  \* the number of runSimulation calls that have returned
    year,                   \* runSimulation's locals
    currentSalary,
    liquidAssets,
    iskAccount,
    generalPensionCapital,
    pensionAccounts,        \* the values of the account objects in the local array
    aliased,                \* the local array holds the passed object's own account objects
    results,
    firstResults,           \* what the first call returned
    taxInputs,              \* the argument of a calculateYearlyTax call
    taxResult,              \* what the call returned, undefined before it
    validationInputs,       \* the inputs argument of a validateInputs call
    validationConfig,       \* its config argument
    validation,             \* what the call returned, undefined before it
    hook,                   \* the state of useEnhancedSimulation
    hookPhase,              \* "unused", "mounted", "running", "calculated"
    timers,                 \* the pending debounce timers, each with the state it captured
    durationInputs,         \* the arguments of an analyzeCapitalDuration call
    durationResult,         \* what the call returned, undefined before it
    summary                 \* what the last generateSummary call returned, undefined before it

vars == <<inputs, config, investmentRates, original, inputsAtCall, pc, calls, year,
          currentSalary, liquidAssets, iskAccount, generalPensionCapital, pensionAccounts,
          aliased, results, firstResults, taxInputs, taxResult,
          validationInputs, validationConfig, validation, hook, hookPhase, timers,
          durationInputs, durationResult, summary>>

engineVars == <<inputs, config, investmentRates, original, inputsAtCall, pc, calls, year,
                currentSalary, liquidAssets, iskAccount, generalPensionCapital,
                pensionAccounts, aliased, results, firstResults>>

taxVars == <<taxInputs, taxResult>>

validationVars == <<validationInputs, validationConfig, validation>>

hookVars == <<hook, hookPhase, timers>>

durationVars == <<durationInputs, durationResult>>

\* what runSimulation does not touch
nonEngineVars == <<taxVars, validationVars, hookVars, durationVars, summary>>

NoTaxCall ==
    /\ taxInputs = undefined
    /\ taxResult = undefined

NoValidation ==
    /\ validationInputs = undefined
    /\ validationConfig = undefined
    /\ validation = undefined

HookUnused ==
    /\ hook = undefined
    /\ hookPhase = "unused"
    /\ timers = << >>

NoDurationCall ==
    /\ durationInputs = undefined
    /\ durationResult = undefined

NoSummary == summary = undefined

EngineIdle ==
    /\ pc = "idle"
    /\ calls = 0
    /\ year = 0
    /\ currentSalary = 0
    /\ liquidAssets = 0
    /\ iskAccount = 0
    /\ generalPensionCapital = 0
    /\ pensionAccounts = <<>>
    /\ aliased = FALSE
    /\ results = <<>>
    /\ firstResults = <<>>

Init ==
    /\ \E p \in Profiles, i \in Incomes, e \in Expenses, a \in AssetChoices :
         \E ps \in {undefined} \cup PensionChoices(p.currentAge) :
            inputs = [profile |-> p, income |-> i, expenses |-> e, assets |-> a,
                      pensions |-> ps]
    /\ config \in ConfigChoices
    \* a run that does not model pensions never reads inputs.pensions
    /\ IF config.includePensions \/ inputs.pensions = undefined THEN TRUE
       ELSE /\ inputs.pensions.accounts = <<>>
            /\ inputs.pensions.generalPension.estimatedMonthlyAmount = 0
    \* enableTransparency is read nowhere; it is set for one income and one
    \* choice of assets
    /\ config.enableTransparency =>
          /\ inputs.income = [monthlySalary |-> 45000, realSalaryGrowth |-> 16]
          /\ inputs.assets.liquidSavings > 0
    \* callers pass investmentRates only together with useCustomInvestmentRates
    /\ investmentRates \in IF config.useCustomInvestmentRates THEN RateChoices
                           ELSE {undefined}
    /\ original = inputs
    /\ inputsAtCall = inputs
    /\ EngineIdle
    /\ NoTaxCall
    /\ NoValidation
    /\ HookUnused
    /\ NoDurationCall
    /\ NoSummary

(***************************************************************************)
(* FinancialSimulationEngine.runSimulation                                 *)
(***************************************************************************)
\* a variant with the two keys exchanged
genderKeyOf_Exchanged(profile) == IF profile.gender = "man" THEN "female" ELSE "male"

\* inputs.profile.gender === "man" ? "male" : "female"
genderKeyOf(profile) == IF profile.gender = "man" THEN "male" ELSE "female"

\* the loop condition: year <= lifeExpectancy - inputs.profile.currentAge
LoopCondition ==
    year * 10 <= lifeExpectancy(genderKeyOf(inputs.profile)) - inputs.profile.currentAge * 10

\* Entry of runSimulation up to the loop.  The caller passes its inputs
\* object, or (from the second call on) a fresh object equal to the original.
runSimulation_Call ==
    /\ pc \in {"idle", "returned"}
    /\ calls < NumCalls
    /\ \E sameObject \in BOOLEAN :
        /\ calls = 0 => sameObject
        /\ inputs' = IF sameObject THEN inputs ELSE original
    /\ inputsAtCall' = inputs'
    /\ results' = <<>>
    /\ currentSalary' = safeNumber(inputs'.income.monthlySalary * 12)
    /\ liquidAssets' = safeNumber(inputs'.assets.liquidSavings)
    /\ iskAccount' = safeNumber(inputs'.assets.iskAccount)
    /\ IF config.includePensions /\ inputs'.pensions # undefined
       THEN /\ generalPensionCapital' =
                 safeNumber(inputs'.pensions.generalPension.currentInkomstpension
                            + inputs'.pensions.generalPension.currentPremiepension)
            \* [...inputs.pensions.accounts]: a new array of the same objects
            /\ pensionAccounts' = inputs'.pensions.accounts
            /\ aliased' = TRUE
       ELSE /\ generalPensionCapital' = 0
            /\ pensionAccounts' = <<>>
            /\ aliased' = FALSE
    /\ year' = 0
    /\ pc' = "loop"
    /\ UNCHANGED <<config, investmentRates, original, calls, firstResults, nonEngineVars>>

\* a variant that keeps paying the salary after retirement
salaryOfYear_NoCutoff(isRetired, salary) == salary

\* currentSalary: isRetired ? 0 : currentSalary
salaryOfYear(isRetired, salary) == IF isRetired THEN 0 ELSE salary

\* a variant that never raises the salary
nextSalary_NoGrowth(isRetired, salary, realSalaryGrowth) == salary

\* the salary carried to the next year
nextSalary(isRetired, salary, realSalaryGrowth) ==
    IF ~isRetired
    THEN safeNumber(MulFrac(salary, 1000 + realSalaryGrowth, 1000))
    ELSE salary

\* the parameters runSimulation hands to simulateYear
yearParams ==
    LET age == inputs.profile.currentAge + year
        isRetired == age >= inputs.profile.desiredRetirementAge
    IN  [year |-> year,
         age |-> age,
         isRetired |-> isRetired,
         currentSalary |-> salaryOfYear(isRetired, currentSalary),
         liquidAssets |-> liquidAssets,
         iskAccount |-> iskAccount,
         monthlyExpenses |-> safeNumberOf(inputs.expenses.monthlyLiving),
         generalPensionCapital |-> IF config.includePensions
                                   THEN Some(generalPensionCapital) ELSE undefined,
         pensionAccounts |-> IF config.includePensions
                             THEN Some(pensionAccounts) ELSE undefined,
         pensionSettings |-> IF config.includePensions THEN inputs.pensions ELSE undefined]

\* One iteration of the year loop.
runSimulation_Year ==
    /\ pc = "loop"
    /\ LoopCondition
    /\ LET params == yearParams
           safeInvestmentRates == sanitizeInvestmentRates(investmentRates)
           yearProjection == simulateYear(params, config)
           \* updatePensionCapital, called by simulateYear, has assigned
           \* currentValue of every object in the local array
           touched == pensionsModelled(params, config)
           mutated == IF touched THEN mutateAccounts(pensionAccounts, params.age)
                      ELSE pensionAccounts
       IN  /\ results' = Append(results, yearProjection)
           /\ inputs' = IF touched /\ aliased
                        THEN [inputs EXCEPT !.pensions.accounts = mutated]
                        ELSE inputs
           /\ liquidAssets' = calculateNextLiquidAssets(yearProjection, liquidAssets,
                                                        safeInvestmentRates, config)
           /\ iskAccount' = calculateNextISKValue(iskAccount, safeInvestmentRates, config)
           /\ IF config.includePensions
              THEN /\ generalPensionCapital' =
                        IF yearProjection.pensionCapital # undefined
                        THEN yearProjection.pensionCapital.general ELSE 0
                   /\ pensionAccounts' = updatePensionAccounts(mutated, params.age)
                   /\ aliased' = FALSE
              ELSE UNCHANGED <<generalPensionCapital, pensionAccounts, aliased>>
           /\ currentSalary' = nextSalary(params.isRetired, currentSalary,
                                          inputs.income.realSalaryGrowth)
    /\ year' = year + 1
    /\ UNCHANGED <<config, investmentRates, original, inputsAtCall, pc, calls,
                   firstResults, nonEngineVars>>

\* The loop condition fails and runSimulation returns results.
runSimulation_Return ==
    /\ pc = "loop"
    /\ ~LoopCondition
    /\ pc' = "returned"
    /\ calls' = calls + 1
    /\ firstResults' = IF calls = 0 THEN results ELSE firstResults
    /\ UNCHANGED <<inputs, config, investmentRates, original, inputsAtCall, year,
                   currentSalary, liquidAssets, iskAccount, generalPensionCapital,
                   pensionAccounts, aliased, results, nonEngineVars>>

Next ==
    \/ runSimulation_Call
    \/ runSimulation_Year
    \/ runSimulation_Return

Spec == Init /\ [][Next]_vars

(***************************************************************************)
(* runSimulation on inputs with an arithmetic fault                        *)
(***************************************************************************)
\* inputs.expenses.monthlyLiving is NaN, infinite or of the order of 10^12;
\* the other fields are sound
FaultyExpenses ==
    { [monthlyLiving |-> x] :
        x \in {NaN, Infinity, MinusInfinity, Finite(1, 0), Finite(2, 0)} }

InitFaults ==
    /\ \E p \in Profiles, i \in Incomes, e \in FaultyExpenses, a \in AssetChoices :
            inputs = [profile |-> p, income |-> i, expenses |-> e, assets |-> a,
                      pensions |-> undefined]
    /\ config \in ConfigChoices
    /\ ~config.enableTransparency
    /\ investmentRates \in IF config.useCustomInvestmentRates THEN RateChoices
                           ELSE {undefined}
    /\ original = inputs
    /\ inputsAtCall = inputs
    /\ EngineIdle
    /\ NoTaxCall
    /\ NoValidation
    /\ HookUnused
    /\ NoDurationCall
    /\ NoSummary

SpecFaults == InitFaults /\ [][Next]_vars

(***************************************************************************)
(* runSimulation on one pension account that pays until it is depleted     *)
(***************************************************************************)
\* private accounts that are not lifelong, with or without capital, a fixed
\* monthly amount and an expected monthly pension
DepletionAccounts(age) ==
    { [type |-> "privat", currentValue |-> v, expectedMonthlyPension |-> e,
       earliestWithdrawalAge |-> 55, latestWithdrawalAge |-> 100,
       withdrawalSettings |-> [startAge |-> age + d, monthlyAmount |-> m,
                               isLifelong |-> FALSE]] :
        v \in {0, 50000}, e \in {0, 3000}, m \in {0, 5000}, d \in {0, 1} }

InitDepletion ==
    /\ \E p \in Profiles, i \in Incomes, e \in Expenses, a \in AssetChoices :
         \E account \in DepletionAccounts(p.currentAge) :
            inputs = [profile |-> p, income |-> i, expenses |-> e, assets |-> a,
                      pensions |->
                         [accounts |-> << account >>,
                          generalPension |->
                             [currentInkomstpension |-> 500000,
                              currentPremiepension |-> 100000,
                              estimatedMonthlyAmount |-> 15000,
                              withdrawalStartAge |-> p.currentAge + 1]]]
    /\ config = [includePensions |-> TRUE, useCustomInvestmentRates |-> FALSE,
                 enableTransparency |-> FALSE]
    /\ investmentRates = undefined
    /\ original = inputs
    /\ inputsAtCall = inputs
    /\ EngineIdle
    /\ NoTaxCall
    /\ NoValidation
    /\ HookUnused
    /\ NoDurationCall
    /\ NoSummary

SpecDepletion == InitDepletion /\ [][Next]_vars

(***************************************************************************)
(* generateSummary after runSimulation, on the inputs object the run was   *)
(* given and the projections it returned                                   *)
(***************************************************************************)
InitSummary ==
    /\ Init
    /\ ~config.useCustomInvestmentRates
    /\ ~config.enableTransparency

generateSummary_Call ==
    /\ pc = "returned"
    /\ summary' = Some(generateSummary(results, inputs, config))
    /\ UNCHANGED <<engineVars, taxVars, validationVars, hookVars, durationVars>>

NextSummary ==
    \/ runSimulation_Call
    \/ runSimulation_Year
    \/ runSimulation_Return
    \/ generateSummary_Call

SpecSummary == InitSummary /\ [][NextSummary]_vars

(***************************************************************************)
(* calculateYearlyTax as a function of its inputs                          *)
(***************************************************************************)
\* gross salaries are the multiples of IncomeStep up to MaxIncomeSteps steps
IncomeStep == 107500

MaxIncomeSteps == 10

\* capitalGains: absent, a loss, zero, a gain
GainChoices ==
    { [hasCapitalGains |-> FALSE, capitalGains |-> 0],
      [hasCapitalGains |-> TRUE, capitalGains |-> -50000],
      [hasCapitalGains |-> TRUE, capitalGains |-> 0],
      [hasCapitalGains |-> TRUE, capitalGains |-> 100000] }

\* ages on both sides of the senior threshold
TaxAges == {25, 65, 66, 80}

TaxInputChoices ==
    { [grossSalary |-> k * IncomeStep, age |-> a, iskCapital |-> isk, kfCapital |-> kf,
       hasCapitalGains |-> g.hasCapitalGains, capitalGains |-> g.capitalGains] :
        k \in 0..MaxIncomeSteps, a \in TaxAges,
        isk \in {0, 100000, 150000, 200000, 1000000}, kf \in {0, 150000, 400000},
        g \in GainChoices }

InitTax ==
    /\ inputs = undefined
    /\ config = undefined
    /\ investmentRates = undefined
    /\ original = undefined
    /\ inputsAtCall = undefined
    /\ EngineIdle
    /\ taxInputs \in TaxInputChoices
    /\ taxResult = undefined
    /\ NoValidation
    /\ HookUnused
    /\ NoDurationCall
    /\ NoSummary

calculateYearlyTax_Call ==
    /\ taxResult = undefined
    /\ taxResult' = calculateYearlyTax(taxInputs)
    /\ UNCHANGED <<engineVars, taxInputs, validationVars, hookVars, durationVars, summary>>

NextTax == calculateYearlyTax_Call

SpecTax == InitTax /\ [][NextTax]_vars

(***************************************************************************)
(* validateInputs as a function of its arguments                           *)
(***************************************************************************)
\* profiles, incomes and expenses on both sides of every limit
ValidatedProfiles ==
    { [currentAge |-> a, gender |-> "kvinna", desiredRetirementAge |-> r] :
        a \in {15, 16, 80, 81}, r \in {16, 60, 61, 81, 82} }

ValidatedIncomes ==
    { [monthlySalary |-> m, realSalaryGrowth |-> g] :
        m \in {9999, 10000, 100000, 100001}, g \in {-51, 16, 101} }

ValidatedExpenses == { [monthlyLiving |-> Kr(l)] : l \in {14999, 15000, 100000} }

\* inputs.investments: absent, or rates on both sides of every limit
ValidatedRates ==
    {undefined} \cup
    { [liquidSavingsRate |-> l, iskAccountRate |-> i] :
        l \in {-101, -100, 200, 201}, i \in {-501, -500, 150, 151, 500, 501} }

\* accounts that start before, at and after the allowed ages, and accounts
\* without capital, with and without an expected monthly pension
ValidatedAccounts ==
    { [type |-> "tjanste", currentValue |-> 100000, expectedMonthlyPension |-> 0,
       earliestWithdrawalAge |-> 55, latestWithdrawalAge |-> 70,
       withdrawalSettings |-> [startAge |-> s, monthlyAmount |-> 0, isLifelong |-> TRUE]] :
        s \in {54, 55, 70, 71} }
    \cup
    { [type |-> "privat", currentValue |-> 0, expectedMonthlyPension |-> e,
       earliestWithdrawalAge |-> 55, latestWithdrawalAge |-> 100,
       withdrawalSettings |-> [startAge |-> 60, monthlyAmount |-> 0, isLifelong |-> FALSE]] :
        e \in {0, 3000} }

\* inputs.pensions: absent, or settings on both sides of every limit
ValidatedPensions ==
    {undefined} \cup
    { [accounts |-> accs,
       generalPension |-> [currentInkomstpension |-> 500000, currentPremiepension |-> 100000,
                           estimatedMonthlyAmount |-> 15000, withdrawalStartAge |-> w]] :
        accs \in SeqsUpTo(ValidatedAccounts, MaxAccounts), w \in {61, 62, 70, 71} }

\* inputs that pass every rule, and inputs that break several at once
PlainInputs ==
    { [profile |-> [currentAge |-> 30, gender |-> "kvinna", desiredRetirementAge |-> 65],
       income |-> [monthlySalary |-> 45000, realSalaryGrowth |-> 16],
       expenses |-> [monthlyLiving |-> Kr(25000)],
       assets |-> [liquidSavings |-> 100000, iskAccount |-> 200000],
       investments |-> [liquidSavingsRate |-> 5, iskAccountRate |-> 35],
       pensions |-> [accounts |-> << >>,
                     generalPension |-> [currentInkomstpension |-> 500000,
                                         currentPremiepension |-> 100000,
                                         estimatedMonthlyAmount |-> 15000,
                                         withdrawalStartAge |-> 65]]],
      [profile |-> [currentAge |-> 30, gender |-> "kvinna", desiredRetirementAge |-> 25],
       income |-> [monthlySalary |-> 45000, realSalaryGrowth |-> 16],
       expenses |-> [monthlyLiving |-> Kr(50000)],
       assets |-> [liquidSavings |-> 100000, iskAccount |-> 200000],
       investments |-> [liquidSavingsRate |-> -800, iskAccountRate |-> 2000],
       pensions |-> [accounts |-> << >>,
                     generalPension |-> [currentInkomstpension |-> 500000,
                                         currentPremiepension |-> 100000,
                                         estimatedMonthlyAmount |-> 15000,
                                         withdrawalStartAge |-> 60]]] }

\* each part of the inputs varied over its choices, the other parts plain
ValidatedInputChoices ==
    { [b EXCEPT !.profile = p, !.income = i, !.expenses = e] :
        b \in PlainInputs, p \in ValidatedProfiles, i \in ValidatedIncomes,
        e \in ValidatedExpenses }
    \cup { [b EXCEPT !.investments = r] : b \in PlainInputs, r \in ValidatedRates }
    \cup { [b EXCEPT !.pensions = ps] : b \in PlainInputs, ps \in ValidatedPensions }

InitValidate ==
    /\ inputs = undefined
    /\ config = undefined
    /\ investmentRates = undefined
    /\ original = undefined
    /\ inputsAtCall = undefined
    /\ EngineIdle
    /\ NoTaxCall
    /\ validationInputs \in ValidatedInputChoices
    /\ validationConfig \in ConfigChoices
    /\ validation = undefined
    /\ HookUnused
    /\ NoDurationCall
    /\ NoSummary

validateInputs_Call ==
    /\ validation = undefined
    /\ validation' = validateInputs(validationInputs, validationConfig)
    /\ UNCHANGED <<engineVars, taxVars, validationInputs, validationConfig, hookVars,
                   durationVars, summary>>

NextValidate == validateInputs_Call

SpecValidate == InitValidate /\ [][NextValidate]_vars

(***************************************************************************)
(* useEnhancedSimulation: the hook state, its update callbacks and the     *)
(* debounced calculation.  Every render with a new state.inputs makes a    *)
(* new debounced function, which the effect calls once: a timer that holds *)
(* the state of that render.  Timers fire in the order they were set.      *)
(***************************************************************************)
\* the largest number of pending timers
MaxPending == 2

\* the config debouncedCalculation builds
hookConfig ==
    [includePensions |-> TRUE, useCustomInvestmentRates |-> TRUE, enableTransparency |-> FALSE]

\* DEFAULT_INVESTMENT_RATES, in 1/1000
DEFAULT_INVESTMENT_RATES == [liquidSavingsRate |-> 5, iskAccountRate |-> 35]

\* the retirement ages and the salaries the user enters
HookRetirementAges == {80, 81}

HookSalaries == {9000, 45000}

\* DEFAULT_ENHANCED_INPUTS with the profile and income the user has saved
HookInputChoices ==
    { [profile |-> [currentAge |-> 80, gender |-> "man", desiredRetirementAge |-> r],
       income |-> [monthlySalary |-> m, realSalaryGrowth |-> 16],
       expenses |-> [monthlyLiving |-> Kr(25000)],
       assets |-> [liquidSavings |-> 100000, iskAccount |-> 200000],
       investments |-> DEFAULT_INVESTMENT_RATES,
       pensions |-> [accounts |-> << >>,
                     generalPension |-> [currentInkomstpension |-> 0,
                                         currentPremiepension |-> 0,
                                         estimatedMonthlyAmount |-> 15000,
                                         withdrawalStartAge |-> 65]]] :
        r \in HookRetirementAges, m \in HookSalaries }

\* what a debounced function reads when its timer fires
Captured(state) == [inputs |-> state.inputs, investmentRates |-> state.investmentRates]

\* initializeState, and the effect of the first render
InitHook ==
    /\ inputs = undefined
    /\ config = undefined
    /\ investmentRates = undefined
    /\ original = undefined
    /\ inputsAtCall = undefined
    /\ EngineIdle
    /\ NoTaxCall
    /\ NoValidation
    /\ \E i \in HookInputChoices :
          hook = [inputs |-> i, investmentRates |-> DEFAULT_INVESTMENT_RATES,
                  projections |-> << >>, isCalculating |-> FALSE,
                  warnings |-> << >>, errors |-> << >>]
    /\ hookPhase = "mounted"
    /\ timers = << Captured(hook) >>
    /\ NoDurationCall
    /\ NoSummary

HookAtRest == hookPhase \in {"mounted", "calculated"}

\* a state update that replaces state.inputs, followed by the render and the
\* effect that calls the new debounced function
SetInputs(newInputs) ==
    /\ HookAtRest
    /\ Len(timers) < MaxPending
    /\ hook' = [hook EXCEPT !.inputs = newInputs]
    /\ timers' = Append(timers, Captured(hook'))
    /\ hookPhase' = "mounted"
    /\ UNCHANGED <<engineVars, taxVars, validationVars, durationVars, summary>>

updateProfile ==
    \E r \in HookRetirementAges :
        SetInputs([hook.inputs EXCEPT !.profile.desiredRetirementAge = r])

updateIncome ==
    \E m \in HookSalaries :
        SetInputs([hook.inputs EXCEPT !.income.monthlySalary = m])

\* the investment-account rates the user enters, in 1/1000 (3.5% and 60%)
HookIskRates == {35, 600}

\* a state update that replaces state.investmentRates and leaves state.inputs
\* (inputs.investments included) as it is, followed by the render and the
\* effect that calls the new debounced function
updateInvestmentRates ==
    /\ HookAtRest
    /\ Len(timers) < MaxPending
    /\ \E i \in HookIskRates :
          hook' = [hook EXCEPT !.investmentRates.iskAccountRate = i]
    /\ timers' = Append(timers, Captured(hook'))
    /\ hookPhase' = "mounted"
    /\ UNCHANGED <<engineVars, taxVars, validationVars, durationVars, summary>>

\* the runSimulation callback of the hook calls the debounced function of
\* the current render: debounce clears the timer of that function, if it is
\* pending, and sets it again.  A pending timer of the current function is
\* the one set last, and it holds the state the new one would hold.
hookRunSimulation ==
    /\ HookAtRest
    /\ timers' = IF timers = << >> THEN << Captured(hook) >> ELSE timers
    /\ hookPhase' = IF timers = << >> THEN "mounted" ELSE hookPhase
    /\ UNCHANGED <<hook, engineVars, taxVars, validationVars, durationVars, summary>>

\* a timer fires and validation fails: the else branch of debouncedCalculation
debouncedCalculation_Invalid ==
    /\ HookAtRest
    /\ timers # << >>
    /\ LET state == Head(timers)
           result == validateInputs(state.inputs, hookConfig)
       IN  /\ ~result.isValid
           /\ validationInputs' = state.inputs
           /\ validationConfig' = hookConfig
           /\ validation' = result
           /\ hook' = [hook EXCEPT !.isCalculating = FALSE,
                                    !.errors = result.errors,
                                    !.warnings = result.warnings]
    /\ timers' = Tail(timers)
    /\ hookPhase' = "calculated"
    /\ UNCHANGED <<engineVars, taxVars, durationVars, summary>>

\* a timer fires and validation succeeds: runSimulation is entered with the
\* captured inputs and rates
debouncedCalculation_Valid ==
    /\ HookAtRest
    /\ timers # << >>
    /\ LET state == Head(timers)
           result == validateInputs(state.inputs, hookConfig)
       IN  /\ result.isValid
           /\ validationInputs' = state.inputs
           /\ validationConfig' = hookConfig
           /\ validation' = result
           /\ inputs' = state.inputs
           /\ original' = state.inputs
           /\ inputsAtCall' = state.inputs
           /\ investmentRates' = state.investmentRates
    /\ config' = hookConfig
    /\ hook' = [hook EXCEPT !.isCalculating = TRUE]
    /\ timers' = Tail(timers)
    /\ hookPhase' = "running"
    /\ pc' = "idle"
    /\ calls' = 0
    /\ year' = 0
    /\ currentSalary' = 0
    /\ liquidAssets' = 0
    /\ iskAccount' = 0
    /\ generalPensionCapital' = 0
    /\ pensionAccounts' = << >>
    /\ aliased' = FALSE
    /\ results' = << >>
    /\ firstResults' = << >>
    /\ UNCHANGED <<taxVars, durationVars, summary>>

\* runSimulation has returned: the state update of the valid branch
debouncedCalculation_Commit ==
    /\ hookPhase = "running"
    /\ pc = "returned"
    /\ hook' = [hook EXCEPT !.projections = results,
                             !.isCalculating = FALSE,
                             !.warnings = validation.warnings,
                             !.errors = << >>]
    /\ hookPhase' = "calculated"
    /\ UNCHANGED <<engineVars, taxVars, validationVars, timers, durationVars, summary>>

NextHook ==
    \/ updateProfile
    \/ updateIncome
    \/ updateInvestmentRates
    \/ hookRunSimulation
    \/ debouncedCalculation_Invalid
    \/ debouncedCalculation_Valid
    \/ (hookPhase = "running" /\ pc = "idle" /\ runSimulation_Call)
    \/ (hookPhase = "running" /\ runSimulation_Year)
    \/ (hookPhase = "running" /\ runSimulation_Return)
    \/ debouncedCalculation_Commit

SpecHook == InitHook /\ [][NextHook]_vars

(***************************************************************************)
(* analyzeCapitalDuration as a function of its arguments                   *)
(***************************************************************************)
\* the largest number of records in a projection sequence
MaxRecords == 4

\* sequences of records with consecutive ages from 63 on, as runSimulation
\* numbers them, and a net worth that is zero or positive
ProjectionChoices ==
    UNION { { [i \in 1..n |-> [age |-> 62 + i, netWorth |-> w[i]]] :
                w \in [1..n -> {0, 100000}] } : n \in 1..MaxRecords }

\* retirement ages before, inside and after the ages of the records
DurationInputChoices ==
    { [projections |-> q, retirementAge |-> r] :
        q \in ProjectionChoices, r \in {62, 63, 64, 65, 70} }

InitDuration ==
    /\ inputs = undefined
    /\ config = undefined
    /\ investmentRates = undefined
    /\ original = undefined
    /\ inputsAtCall = undefined
    /\ EngineIdle
    /\ NoTaxCall
    /\ NoValidation
    /\ HookUnused
    /\ durationInputs \in DurationInputChoices
    /\ durationResult = undefined
    /\ NoSummary

analyzeCapitalDuration_Call ==
    /\ durationResult = undefined
    /\ durationResult' = Some(analyzeCapitalDuration(durationInputs.projections,
                                                      durationInputs.retirementAge))
    /\ UNCHANGED <<engineVars, taxVars, validationVars, hookVars, durationInputs, summary>>

NextDuration == analyzeCapitalDuration_Call

SpecDuration == InitDuration /\ [][NextDuration]_vars

(***************************************************************************)
(* Properties of runSimulation, checked under Spec                         *)
(***************************************************************************)
Returned == pc = "returned"

Records == 1..Len(results)

\* C1: runSimulation never mutates the caller's inputs object: after the
\* call every field of inputs, each pensions.accounts[i].currentValue
\* included, equals its value before the call.
C1_InputsNotMutated == Returned => inputs = inputsAtCall

\* C2: two successive runSimulation calls with the same inputs (the same
\* object passed twice, or an equal copy) return equal projection sequences.
C2_Deterministic == (Returned /\ calls >= 2) => results = firstResults

\* C3: netWorth >= 0 in every record runSimulation emits.
C3_NetWorthFloor == \A i \in Records : results[i].netWorth >= 0

\* the first year of a run that starts with negative assets and no pension
\* capital reports net worth 0
C3_Witness ==
    /\ Len(results) >= 1
    /\ inputsAtCall.assets.liquidSavings + inputsAtCall.assets.iskAccount < 0
    /\ results[1].pensionCapital = undefined
    /\ results[1].netWorth = 0

\* C4 as stated: salary = 0 in every record with age >= desiredRetirementAge,
\* and salary > 0 in the record of the age just before it whenever the
\* starting monthly salary is positive.
C4_HardCutoffAnyGrowth ==
    \A i \in Records :
        /\ results[i].age >= inputs.profile.desiredRetirementAge => results[i].salary = 0
        /\ ( /\ results[i].age = inputs.profile.desiredRetirementAge - 1
             /\ inputs.income.monthlySalary > 0 )
           => results[i].salary > 0

\* C4 as amended: the same, the second part for a real salary growth above
\* -100 % only.
C4_HardCutoff ==
    \A i \in Records :
        /\ results[i].age >= inputs.profile.desiredRetirementAge => results[i].salary = 0
        /\ ( /\ results[i].age = inputs.profile.desiredRetirementAge - 1
             /\ inputs.income.monthlySalary > 0
             /\ inputs.income.realSalaryGrowth > -1000 )
           => results[i].salary > 0

\* a finished run with a positive salary in the last working year, after the
\* salary has been raised at least once, and two retired years of salary 0
\* while the carried salary is still positive
C4_Witness ==
    /\ Returned
    /\ currentSalary > 0
    /\ \E i \in Records :
        /\ i >= 2
        /\ i + 2 <= Len(results)
        /\ results[i].age = inputs.profile.desiredRetirementAge - 1
        /\ results[i].salary > 0
        /\ results[i + 1].salary = 0
        /\ results[i + 2].salary = 0

\* C5: salary[0] = monthlySalary * 12, and for consecutive records that both
\* have age < desiredRetirementAge, salary[y+1] = salary[y] * (1 + realSalaryGrowth)
\* (in whole kronor).
C5_SalaryGrowth ==
    /\ Len(results) >= 1 => results[1].salary = inputs.income.monthlySalary * 12
    /\ \A i \in Records :
        ( /\ i + 1 <= Len(results)
          /\ results[i].age < inputs.profile.desiredRetirementAge
          /\ results[i + 1].age < inputs.profile.desiredRetirementAge )
        => results[i + 1].salary =
             (results[i].salary * (1000 + inputs.income.realSalaryGrowth)) \div 1000

\* three working years with a salary that rose twice
C5_Witness ==
    /\ Len(results) >= 3
    /\ results[3].age < inputs.profile.desiredRetirementAge
    /\ results[1].salary > 0
    /\ results[2].salary > results[1].salary
    /\ results[3].salary > results[2].salary

\* floor of the life expectancy of the profile's category, in years
FloorLifeExpectancy ==
    (IF inputs.profile.gender = "man" THEN lifeExpectancy_male ELSE lifeExpectancy_female)
        \div 10

\* C6: record i (0-based) has year = i and age = currentAge + i; the first
\* record has age = currentAge and the last one age = floor(life expectancy),
\* so the sequence has floor(lifeExpectancy) - currentAge + 1 records.
C6_NoGaps ==
    /\ \A i \in Records :
        /\ results[i].year = i - 1
        /\ results[i].age = inputs.profile.currentAge + i - 1
    /\ Returned =>
        /\ Len(results) = FloorLifeExpectancy - inputs.profile.currentAge + 1
        /\ results[1].age = inputs.profile.currentAge
        /\ results[Len(results)].age = FloorLifeExpectancy

\* a woman's finished run from 80 to 85
C6_Witness ==
    /\ Returned
    /\ inputs.profile.gender = "kvinna"
    /\ Len(results) = 6
    /\ results[6].age = 85

(***************************************************************************)
(* Properties of calculateYearlyTax, checked under SpecTax                 *)
(***************************************************************************)
TaxReturned == taxResult # undefined

\* C7: for every input of calculateYearlyTax, totalTax is the sum of
\* municipalTax, stateTax, iskTax, kfTax and capitalGainsTax, and netIncome
\* is grossSalary minus totalTax.
C7_TaxDecomposition ==
    TaxReturned =>
        /\ taxResult.totalTax = taxResult.municipalTax + taxResult.stateTax
                                + taxResult.iskTax + taxResult.kfTax
                                + taxResult.capitalGainsTax
        /\ taxResult.netIncome = taxInputs.grossSalary - taxResult.totalTax

\* a result in which each of the five taxes is positive
C7_Witness ==
    /\ TaxReturned
    /\ taxResult.municipalTax > 0
    /\ taxResult.stateTax > 0
    /\ taxResult.iskTax > 0
    /\ taxResult.kfTax > 0
    /\ taxResult.capitalGainsTax > 0

\* C8 as stated: with grossSalary = 0 the municipal, state and total tax and
\* the net income are all 0, whatever the age and the balances.
C8_ZeroSalaryAllZero ==
    (TaxReturned /\ taxInputs.grossSalary = 0) =>
        /\ taxResult.municipalTax = 0
        /\ taxResult.stateTax = 0
        /\ taxResult.totalTax = 0
        /\ taxResult.netIncome = 0

\* C8 as amended: with grossSalary = 0 the municipal and the state tax are 0,
\* totalTax is the sum of the ISK, KF and capital gains taxes and netIncome
\* is minus totalTax; both are 0 when neither balance exceeds the tax-free
\* amount and there is no capital gain.
C8_ZeroSalaryNoIncomeTax ==
    (TaxReturned /\ taxInputs.grossSalary = 0) =>
        /\ taxResult.municipalTax = 0
        /\ taxResult.stateTax = 0
        /\ taxResult.totalTax = taxResult.iskTax + taxResult.kfTax
                                + taxResult.capitalGainsTax
        /\ taxResult.netIncome = 0 - taxResult.totalTax
        /\ ( /\ taxInputs.iskCapital <= taxFreeAmount2025
             /\ taxInputs.kfCapital <= taxFreeAmount2025
             /\ ~(taxInputs.hasCapitalGains /\ taxInputs.capitalGains > 0) )
           => (taxResult.totalTax = 0 /\ taxResult.netIncome = 0)

\* zero salary with an ISK balance above the tax-free amount: ISK tax is due
C8_Witness ==
    /\ TaxReturned
    /\ taxInputs.grossSalary = 0
    /\ taxInputs.iskCapital > taxFreeAmount2025
    /\ taxResult.iskTax > 0
    /\ taxResult.netIncome < 0

\* C9: with grossSalary >= 0 and balances >= 0 none of the five taxes is
\* negative; a capital loss gives capitalGainsTax = 0 and a gain g > 0 gives
\* g times the securities rate.
C9_NoNegativeTax ==
    (TaxReturned /\ taxInputs.grossSalary >= 0 /\ taxInputs.iskCapital >= 0
        /\ taxInputs.kfCapital >= 0) =>
        /\ taxResult.municipalTax >= 0
        /\ taxResult.stateTax >= 0
        /\ taxResult.iskTax >= 0
        /\ taxResult.kfTax >= 0
        /\ taxResult.capitalGainsTax >= 0
        /\ (taxInputs.hasCapitalGains /\ taxInputs.capitalGains < 0)
             => taxResult.capitalGainsTax = 0
        /\ (taxInputs.hasCapitalGains /\ taxInputs.capitalGains > 0)
             => taxResult.capitalGainsTax =
                  (taxInputs.capitalGains * capitalGainsSecurities) \div 100

\* a capital loss was passed and taxed 0
C9_Witness ==
    /\ TaxReturned
    /\ taxInputs.hasCapitalGains
    /\ taxInputs.capitalGains < 0
    /\ taxResult.capitalGainsTax = 0

\* (balance - allowance) * max(referenceRate + supplement, floorRate) * flatTaxRate,
\* in whole kronor
FlatYieldTaxAbove(balance) ==
    ((balance - taxFreeAmount2025)
        * (Max(governmentBondRate + supplement, minRate) * iskTaxRate)) \div 100000

\* C10: for the ISK and for the KF balance alike, a balance at or below the
\* tax-free allowance gives tax 0 and a balance above it gives
\* (balance - allowance) * effectiveRate.
C10_FlatYieldThreshold ==
    TaxReturned =>
        /\ taxInputs.iskCapital <= taxFreeAmount2025 => taxResult.iskTax = 0
        /\ taxInputs.iskCapital > taxFreeAmount2025
             => taxResult.iskTax = FlatYieldTaxAbove(taxInputs.iskCapital)
        /\ taxInputs.kfCapital <= taxFreeAmount2025 => taxResult.kfTax = 0
        /\ taxInputs.kfCapital > taxFreeAmount2025
             => taxResult.kfTax = FlatYieldTaxAbove(taxInputs.kfCapital)

\* an ISK balance above the allowance beside a KF balance exactly at it
C10_Witness ==
    /\ TaxReturned
    /\ taxInputs.iskCapital > taxFreeAmount2025
    /\ taxInputs.kfCapital = taxFreeAmount2025
    /\ taxResult.iskTax > 0
    /\ taxResult.kfTax = 0

\* C11: for every gross salary, the state tax calculateYearlyTax computes for
\* an age at or above the senior threshold (66) is at most the state tax it
\* computes for the same inputs at an age below the threshold.
C11_SeniorStateTaxNotHigher ==
    (TaxReturned /\ taxInputs.age >= SeniorAge) =>
        \A a \in {y \in TaxAges : y < SeniorAge} :
            taxResult.stateTax <= calculateYearlyTax([taxInputs EXCEPT !.age = a]).stateTax

\* a senior who pays state tax, and less of it than a 65-year-old with the
\* same salary
C11_Witness ==
    /\ TaxReturned
    /\ taxInputs.age >= SeniorAge
    /\ taxResult.stateTax > 0
    /\ taxResult.stateTax < calculateYearlyTax([taxInputs EXCEPT !.age = 65]).stateTax

(***************************************************************************)
(* Pension income in the records of runSimulation, checked under Spec      *)
(***************************************************************************)
\* the monthly income the record holds for accounts of a type
CategoryIncome(record, type) ==
    IF type = "tjanste" THEN record.pensionIncome.occupationalPension
    ELSE record.pensionIncome.privatePension

\* the account has positive capital or a positive fixed monthly amount
Funded(account) ==
    account.currentValue > 0 \/ account.withdrawalSettings.monthlyAmount > 0

Validated == validation # undefined

HasError(rule) == \E k \in 1..Len(validation.errors) : validation.errors[k].rule = rule

HasWarning(rule) == \E k \in 1..Len(validation.warnings) : validation.warnings[k].rule = rule

\* the rules of the profile, income and expense checks that only warn
WarningOnlyRules ==
    {"retirementBefore61", "lowSalary", "highSalary", "unusualGrowth", "noSaving",
     "lowExpenses"}

\* C14: validateInputs returns isValid = true exactly when its error list is
\* empty; currentAge < 16 or > 80 adds an error, and so does
\* desiredRetirementAge <= currentAge; retirement age < 61, monthly salary
\* < 10000 or > 100000, monthly expense >= monthly salary and monthly expense
\* < 15000 each add a warning and never an error, so inputs that trigger
\* only those rules are valid.
C14_ProfileIncomeExpenseRules ==
    Validated =>
        LET profile == validationInputs.profile
            income == validationInputs.income
            expenses == validationInputs.expenses
        IN  /\ validation.isValid <=> validation.errors = << >>
            /\ (profile.currentAge < 16 \/ profile.currentAge > 80) <=> HasError("ageRange")
            /\ (profile.desiredRetirementAge <= profile.currentAge)
                  <=> HasError("retirementNotAfterAge")
            /\ (profile.desiredRetirementAge < 61) <=> HasWarning("retirementBefore61")
            /\ (income.monthlySalary < 10000) <=> HasWarning("lowSalary")
            /\ (income.monthlySalary > 100000) <=> HasWarning("highSalary")
            /\ (expenses.monthlyLiving.lo >= income.monthlySalary) <=> HasWarning("noSaving")
            /\ (expenses.monthlyLiving.lo < 15000) <=> HasWarning("lowExpenses")
            /\ \A rule \in WarningOnlyRules : ~HasError(rule)
            /\ ( /\ profile.currentAge >= 16
                 /\ profile.currentAge <= 80
                 /\ profile.desiredRetirementAge > profile.currentAge
                 /\ ~validationConfig.useCustomInvestmentRates
                 /\ ~validationConfig.includePensions )
               => validation.isValid

\* inputs that trigger four of the warning rules and no error are valid
C14_Witness ==
    /\ Validated
    /\ validation.isValid
    /\ HasWarning("retirementBefore61")
    /\ HasWarning("lowSalary")
    /\ HasWarning("noSaving")
    /\ HasWarning("lowExpenses")

\* validateInputs has checked inputs.investments
RatesValidated ==
    /\ Validated
    /\ validationConfig.useCustomInvestmentRates
    /\ validationInputs.investments # undefined

\* C15: when custom investment rates are enabled, validateInputs adds an
\* error, and so returns isValid = false, exactly when the investment-account
\* rate is below -50 % or above +50 %; a liquid-savings rate outside
\* [-10 %, +20 %] adds only a warning, and an investment-account rate above
\* 15 % adds a warning.  Without the flag no rate rule is applied.
C15_InvestmentRateRules ==
    /\ RatesValidated =>
          LET rates == validationInputs.investments
          IN  /\ (rates.iskAccountRate < -500 \/ rates.iskAccountRate > 500)
                    <=> HasError("iskRateOutOfRange")
              /\ HasError("iskRateOutOfRange") => ~validation.isValid
              /\ (rates.liquidSavingsRate < -100 \/ rates.liquidSavingsRate > 200)
                    <=> HasWarning("liquidRateUnrealistic")
              /\ ~HasError("liquidRateUnrealistic")
              /\ (rates.iskAccountRate > 150) <=> HasWarning("iskRateHigh")
              /\ ~HasError("iskRateHigh")
    /\ (Validated /\ ~validationConfig.useCustomInvestmentRates) =>
          /\ ~HasError("iskRateOutOfRange")
          /\ ~HasWarning("liquidRateUnrealistic")
          /\ ~HasWarning("iskRateHigh")

\* an investment-account rate above +50 % is the only error of a validation,
\* beside the warnings for that rate and for the liquid-savings rate
C15_Witness ==
    /\ RatesValidated
    /\ validationInputs.investments.iskAccountRate > 500
    /\ Len(validation.errors) = 1
    /\ HasError("iskRateOutOfRange")
    /\ HasWarning("iskRateHigh")
    /\ HasWarning("liquidRateUnrealistic")
    /\ ~validation.isValid

\* validateInputs has checked inputs.pensions
PensionsValidated ==
    /\ Validated
    /\ validationConfig.includePensions
    /\ validationInputs.pensions # undefined

HasErrorFor(rule, k) == Msg(rule, k) \in {validation.errors[j] : j \in 1..Len(validation.errors)}

HasWarningFor(rule, k) ==
    Msg(rule, k) \in {validation.warnings[j] : j \in 1..Len(validation.warnings)}

\* C16: when pensions are modelled, validateInputs adds an error when the
\* general-pension withdrawal age is < 62 and, per account, when the
\* account's withdrawal age is below its earliest-allowed age; it adds only
\* a warning when the general withdrawal age is > 70, when an account's
\* withdrawal age is above its latest-allowed age, and when an account has
\* zero current value and no expected monthly pension.
C16_PensionRules ==
    PensionsValidated =>
        LET pensions == validationInputs.pensions
        IN  /\ (pensions.generalPension.withdrawalStartAge < 62) <=> HasError("generalTooEarly")
            /\ (pensions.generalPension.withdrawalStartAge > 70) <=> HasWarning("generalLate")
            /\ ~HasError("generalLate")
            /\ ~HasError("accountLate")
            /\ ~HasError("accountNoValue")
            /\ \A k \in 1..Len(pensions.accounts) :
                  LET account == pensions.accounts[k]
                  IN  /\ (account.withdrawalSettings.startAge < account.earliestWithdrawalAge)
                            <=> HasErrorFor("accountTooEarly", k)
                      /\ (account.withdrawalSettings.startAge > account.latestWithdrawalAge)
                            <=> HasWarningFor("accountLate", k)
                      /\ (account.currentValue = 0 /\ account.expectedMonthlyPension = 0)
                            <=> HasWarningFor("accountNoValue", k)
            /\ (HasError("generalTooEarly") \/ HasError("accountTooEarly"))
                  => ~validation.isValid

\* a general pension taken at 61 and an account taken before its earliest
\* age give two errors; a second account without value gives a warning
C16_Witness ==
    /\ PensionsValidated
    /\ HasError("generalTooEarly")
    /\ HasErrorFor("accountTooEarly", 1)
    /\ HasWarningFor("accountNoValue", 2)
    /\ ~HasWarningFor("accountNoValue", 1)
    /\ ~validation.isValid

(***************************************************************************)
(* Properties of useEnhancedSimulation, checked under SpecHook             *)
(***************************************************************************)
\* C13: whatever the hook state was before, after a calculation in which
\* validateInputs returns isValid = false the state holds zero projections,
\* a non-empty error list and the warnings of that validation; after a
\* calculation with valid inputs it holds the full projection sequence, an
\* empty error list and the warnings of that validation.
C13_FailedValidationNoProjections ==
    hookPhase = "calculated" =>
        IF validation.isValid
        THEN /\ hook.projections = results
             /\ Len(hook.projections) > 0
             /\ hook.errors = << >>
             /\ hook.warnings = validation.warnings
        ELSE /\ hook.projections = << >>
             /\ hook.errors # << >>
             /\ hook.warnings = validation.warnings

(***************************************************************************)
(* Properties of analyzeCapitalDuration, checked under SpecDuration        *)
(***************************************************************************)
\* C17: analyzeCapitalDuration starts at the record whose age equals the
\* retirement age and returns (age - retirementAge) of the first record from
\* there on whose net worth is <= 0, or, if there is none, (age of the final
\* record - retirementAge); so for a sequence whose net worth reaches 0
\* first at age R + k it returns k; it returns 0 when no record has the
\* retirement age.
C17_CapitalDuration ==
    durationResult # undefined =>
        LET q == durationInputs.projections
            R == durationInputs.retirementAge
            k == durationResult.value
            fromRetirement == { i \in 1..Len(q) : q[i].age >= R }
        IN  IF \A i \in 1..Len(q) : q[i].age # R
            THEN k = 0
            ELSE IF \A i \in fromRetirement : q[i].netWorth > 0
                 THEN k = q[Len(q)].age - R
                 ELSE /\ k >= 0
                      /\ \E i \in fromRetirement :
                            /\ q[i].age = R + k
                            /\ q[i].netWorth <= 0
                      /\ \A i \in fromRetirement : q[i].age < R + k => q[i].netWorth > 0

\* the net worth is 0 in the year before retirement, positive for two years
\* from retirement on and 0 again two years after it: the result is 2
C17_Witness ==
    /\ durationResult = Some(2)
    /\ Len(durationInputs.projections) = 4
    /\ durationInputs.retirementAge = durationInputs.projections[2].age
    /\ durationInputs.projections[1].netWorth = 0
    /\ durationInputs.projections[2].netWorth > 0
    /\ durationInputs.projections[3].netWorth > 0
    /\ durationInputs.projections[4].netWorth = 0

(***************************************************************************)
(* The pension sub-records and the balances carried over, under Spec       *)
(***************************************************************************)
\* C18: every record of a run carries both pensionIncome and pensionCapital
\* when config.includePensions is true and pension settings are supplied,
\* and carries neither when config.includePensions is false, whatever the
\* other two flags are.
C18_PensionSubRecords ==
    \A i \in Records :
        /\ (config.includePensions /\ inputs.pensions # undefined) =>
              /\ results[i].pensionIncome # undefined
              /\ results[i].pensionCapital # undefined
        /\ ~config.includePensions =>
              /\ results[i].pensionIncome = undefined
              /\ results[i].pensionCapital = undefined

\* a finished run with pensions and transparency enabled and default rates,
\* whose records all carry the pension data
C18_Witness ==
    /\ Returned
    /\ config.includePensions
    /\ config.enableTransparency
    /\ ~config.useCustomInvestmentRates
    /\ inputs.pensions # undefined
    /\ Len(results) >= 3
    /\ \A i \in Records : results[i].pensionCapital # undefined


(***************************************************************************)
(* C19: whatever the inputs, NaN, Infinity and huge values included, no    *)
(* monetary field of an emitted record is NaN, infinite or of magnitude    *)
(* above 10^12.  salary, netWorth, the other calculations fields and the   *)
(* pension fields are integers of the model; expenses, savings and         *)
(* calculations.cashFlow are number records.                               *)
(***************************************************************************)
WithinMaxReasonable(x) == isFinite(x) /\ ~ExceedsMaxReasonable(x)

C19_NoArithmeticFaults ==
    \A i \in 1..Len(results) :
        /\ WithinMaxReasonable(results[i].expenses)
        /\ WithinMaxReasonable(results[i].savings)
        /\ WithinMaxReasonable(results[i].calculations.cashFlow)


(***************************************************************************)
(* C20: in a year with a negative cash flow the deficit is taken from the  *)
(* liquid assets first and the remainder from the investment account, each *)
(* floored at 0, before growth is applied; a cash flow that is not         *)
(* negative is added entirely to the liquid assets and the investment      *)
(* account changes by its growth only.                                     *)
(***************************************************************************)
\* the balances after the cash flow and before growth, as the rule gives them
BalancesAfterCashFlow(liquid, isk, cashFlow) ==
    IF cashFlow < 0
    THEN LET deficit == -cashFlow
             fromLiquid == Max(0, Min(deficit, liquid))
         IN  [liquid |-> Max(0, liquid - deficit),
              isk |-> Max(0, isk - (deficit - fromLiquid))]
    ELSE [liquid |-> liquid + cashFlow, isk |-> isk]

\* the growth of a liquid balance over a year with no cash flow
GrownLiquid(balance, rates, cfg) ==
    calculateNextLiquidAssets([calculations |-> [cashFlow |-> Kr(0)]], balance, rates, cfg)

C20_DrawDownOrder ==
    [][runSimulation_Year =>
         LET yearProjection == results'[Len(results')]
             rates == sanitizeInvestmentRates(investmentRates)
             after == BalancesAfterCashFlow(liquidAssets, iskAccount,
                                            yearProjection.calculations.cashFlow.lo)
         IN  /\ liquidAssets' = GrownLiquid(after.liquid, rates, config)
             /\ iskAccount' = calculateNextISKValue(after.isk, rates, config)]_vars


(***************************************************************************)
(* C21: pension capital is advanced exactly once per simulated year: the   *)
(* capital an account carries into the next year is its capital at the     *)
(* start of the year times (1 + mixed-portfolio rate) before its           *)
(* withdrawal age, and less 12 times its monthly pension, floored at 0,    *)
(* from then on; the general-pension capital grows by the bond rate before *)
(* its withdrawal age and falls by 12 times the general monthly pension,   *)
(* floored at 0, from then on.                                             *)
(***************************************************************************)
\* the general-pension capital advanced by one year
GeneralAdvancedOnce(capital, age, general, monthlyPension) ==
    IF age >= general.withdrawalStartAge
    THEN Max(0, capital - 12 * monthlyPension)
    ELSE MulFrac(capital, 1000 + bonds, 1000)

C21_PensionCapitalAdvancedOnce ==
    [][runSimulation_Year =>
         IF pensionsModelled(yearParams, config)
         THEN LET age == inputs.profile.currentAge + year
                  yearProjection == results'[Len(results')]
              IN  /\ \A i \in 1..Len(pensionAccounts) :
                        pensionAccounts'[i].currentValue
                            = nextAccountValue(pensionAccounts[i], age)
                  /\ generalPensionCapital'
                        = GeneralAdvancedOnce(generalPensionCapital, age,
                                              inputs.pensions.generalPension,
                                              yearProjection.pensionIncome.generalPension)
         ELSE TRUE]_vars


(***************************************************************************)
(* C22: the net worth of a record is the end-of-year value: the liquid and *)
(* investment-account balances carried into the next year plus the year's  *)
(* updated total pension capital, floored at 0.                            *)
(***************************************************************************)
C22_EndOfYearNetWorth ==
    [][runSimulation_Year =>
         LET yearProjection == results'[Len(results')]
             P == IF yearProjection.pensionCapital # undefined
                  THEN yearProjection.pensionCapital.total ELSE 0
         IN  yearProjection.netWorth = Max(0, liquidAssets' + iskAccount' + P)]_vars


(***************************************************************************)
(* C23: an account that is not lifelong pays only while it has capital: in *)
(* the record of a year the account starts with capital 0 the pension      *)
(* income of the account is 0; the capital of the account is never         *)
(* negative and, once its withdrawal has started, never increases.  The    *)
(* income of an account is the income the record holds for its type when   *)
(* it is the only account of that type.                                    *)
(***************************************************************************)
C23_UntilDepleted ==
    [][runSimulation_Year =>
         IF pensionsModelled(yearParams, config)
         THEN LET age == inputs.profile.currentAge + year
                  record == results'[Len(results')]
              IN  \A k \in 1..Len(pensionAccounts) :
                     LET account == pensionAccounts[k]
                         alone == \A j \in 1..Len(pensionAccounts) :
                                     j # k => pensionAccounts[j].type # account.type
                     IN  ~account.withdrawalSettings.isLifelong =>
                            /\ (account.currentValue = 0 /\ alone)
                                  => CategoryIncome(record, account.type) = 0
                            /\ pensionAccounts'[k].currentValue >= 0
                            /\ age >= account.withdrawalSettings.startAge
                                  => pensionAccounts'[k].currentValue <= account.currentValue
         ELSE TRUE]_vars


(***************************************************************************)
(* C24: the monthly pension of an account that has reached its             *)
(* withdrawal-start age is its fixed monthly amount when that is > 0,      *)
(* otherwise its expected monthly pension when that is > 0, otherwise      *)
(* derived from its capital at the start of the year: capital divided by   *)
(* 12 times the remaining years for a lifelong account, the remaining      *)
(* years being the life expectancy of the profile minus the age and at     *)
(* least 1, and 4% of the capital divided by 12 for an account that is not *)
(* lifelong.  The pension of an account is the income the record holds for *)
(* its type when it is the only account of that type.                      *)
(***************************************************************************)
\* the remaining years of the profile, in tenths of a year
RemainingYearsOfProfile(profile, age) ==
    Max(10, lifeExpectancy(genderKeyOf(profile)) - age * 10)

PensionByPrecedence(account, age, profile) ==
    IF account.withdrawalSettings.monthlyAmount > 0
    THEN account.withdrawalSettings.monthlyAmount
    ELSE IF account.expectedMonthlyPension > 0
    THEN account.expectedMonthlyPension
    ELSE IF account.withdrawalSettings.isLifelong
    THEN MulFrac(account.currentValue, 10, RemainingYearsOfProfile(profile, age) * 12)
    ELSE MulFrac(account.currentValue, 4, 100) \div 12

C24_AccountPensionPrecedence ==
    [][runSimulation_Year =>
         IF pensionsModelled(yearParams, config)
         THEN LET age == inputs.profile.currentAge + year
                  record == results'[Len(results')]
              IN  \A k \in 1..Len(pensionAccounts) :
                     LET account == pensionAccounts[k]
                         alone == \A j \in 1..Len(pensionAccounts) :
                                     j # k => pensionAccounts[j].type # account.type
                     IN  (alone /\ age >= account.withdrawalSettings.startAge)
                            => CategoryIncome(record, account.type)
                                  = PensionByPrecedence(account, age, inputs.profile)
         ELSE TRUE]_vars


(***************************************************************************)
(* C25: generateSummary, called after runSimulation with the same inputs   *)
(* object, reports as totalPensionCapital the capital at simulation start: *)
(* the two general-pension balances and the current value of every account *)
(* as the caller supplied them before the run; 0 when pensions are not     *)
(* modelled.                                                               *)
(***************************************************************************)
CapitalAtStart ==
    IF config.includePensions /\ original.pensions # undefined
    THEN LET accounts == original.pensions.accounts
         IN  original.pensions.generalPension.currentInkomstpension
             + original.pensions.generalPension.currentPremiepension
             + SumOver([i \in 1..Len(accounts) |-> accounts[i].currentValue],
                       Len(accounts))
    ELSE 0

C25_SummaryCapitalAtStart ==
    summary # undefined => summary.value.totalPensionCapital = CapitalAtStart


(***************************************************************************)
(* C26: in the record of a year, grossIncome is the salary plus 12 times   *)
(* pensionIncome.total (the salary alone when the record carries no        *)
(* pension data) and is the income the tax calculation received, together  *)
(* with the age and the investment-account balance at the start of the     *)
(* year; expenses is 12 times the monthly living cost; netIncome is        *)
(* grossIncome less totalTax; cashFlow is netIncome less expenses; savings *)
(* is cashFlow; totalTax is municipalTax + stateTax + iskTax.              *)
(***************************************************************************)
C26_IncomeCashFlowIdentities ==
    [][runSimulation_Year =>
         LET record == results'[Len(results')]
             c == record.calculations
             tax == calculateYearlyTax([grossSalary |-> c.grossIncome,
                                        age |-> inputs.profile.currentAge + year,
                                        iskCapital |-> iskAccount,
                                        kfCapital |-> 0,
                                        hasCapitalGains |-> FALSE,
                                        capitalGains |-> 0])
         IN  /\ c.grossIncome
                   = record.salary
                     + (IF record.pensionIncome # undefined
                        THEN 12 * record.pensionIncome.total ELSE 0)
             /\ c.municipalTax = tax.municipalTax
             /\ c.stateTax = tax.stateTax
             /\ c.iskTax = tax.iskTax
             /\ record.expenses = TimesInteger(inputs.expenses.monthlyLiving, 12)
             /\ c.netIncome = c.grossIncome - c.totalTax
             /\ c.cashFlow = Minus(Kr(c.netIncome), record.expenses)
             /\ record.savings = c.cashFlow
             /\ c.totalTax = c.municipalTax + c.stateTax + c.iskTax]_vars

\* a record of a year with a salary and a pension, taxed on income and on the
\* investment account, whose cash flow is positive
C26_Witness ==
    \E i \in 1..Len(results) :
        /\ results[i].salary > 0
        /\ results[i].pensionIncome # undefined
        /\ results[i].calculations.municipalTax > 0
        /\ results[i].calculations.iskTax > 0
        /\ results[i].calculations.grossIncome > results[i].salary
        /\ LessThan(Kr(0), results[i].savings)


(***************************************************************************)
(* C27: input changes that arrive while a debounce timer is pending lead   *)
(* to one validation and engine run, on the latest inputs: at most one     *)
(* timer is pending, and it holds the latest inputs and rates.             *)
(***************************************************************************)
C27_OneRunPerBurst ==
    /\ Len(timers) <= 1
    /\ \A i \in 1..Len(timers) : timers[i] = Captured(hook)


(***************************************************************************)
(* C28: the hook validates the rates it simulates with: runSimulation is   *)
(* never invoked with a user-set investment-account rate outside           *)
(* [-50%, +50%]; the calculation ends with a validation error instead.     *)
(***************************************************************************)
C28_RatesValidatedBeforeRun ==
    hookPhase = "running" =>
        /\ investmentRates.iskAccountRate >= -500
        /\ investmentRates.iskAccountRate <= 500


(***************************************************************************)
(* C29: the hook converges on the latest inputs: once every pending timer  *)
(* has fired and the last calculation has ended, isCalculating is false    *)
(* and the errors, warnings and projections in the state are those of the  *)
(* latest inputs and rates: the messages of their validation and, when     *)
(* they are valid, the projections runSimulation returned for them; when   *)
(* they are not valid no projections are computed from them.               *)
(***************************************************************************)
HookQuiescent == timers = << >> /\ hookPhase = "calculated"

C29_ConvergesOnLatestInputs ==
    HookQuiescent =>
        /\ ~hook.isCalculating
        /\ validationInputs = hook.inputs
        /\ hook.errors = validation.errors
        /\ hook.warnings = validation.warnings
        /\ IF validation.isValid
           THEN /\ hook.projections = results
                /\ inputsAtCall = hook.inputs
                /\ investmentRates = hook.investmentRates
           ELSE hook.projections = << >>


(***************************************************************************)
(* C30: the pension fee of a year record is the fee the tax calculation    *)
(* applied: 7% of the smaller of the gross income it received and the      *)
(* income cap, the amount deducted when the taxable income was computed.   *)
(***************************************************************************)
C30_PensionFeeAsApplied ==
    [][runSimulation_Year =>
         LET record == results'[Len(results')]
             age == inputs.profile.currentAge + year
         IN  record.calculations.pensionFee
                = calculateIncomeTax(record.calculations.grossIncome, age).pensionFee]_vars

=============================================================================
